---- MODULE Spec2Model ----
(***************************************************************************)
(* Model of the DigiKey parts-catalog client of the backend:               *)
(*   backend/src/services/digikey.rs     token cache, search, aggregation  *)
(*   backend/src/controllers/digikey.rs  the POST /search handler          *)
(*                                                                         *)
(* Spec     concurrent callers going through search_parts / search_keyword *)
(*          / get_access_token, one step per lock operation or await.      *)
(* AggSpec  the result aggregation of search_keyword, run on provider      *)
(*          responses with long buckets, one step per bucket / record.     *)
(***************************************************************************)
EXTENDS Integers, Sequences, FiniteSets, TLC

\* ------------------------------------------------------------------ bounds
MaxNow     == 2     \* the monotonic clock runs 0..MaxNow (seconds)
MaxIssued  == 2     \* tokens the provider issues
MaxSlack   == 1     \* expires_in ranges over MARGIN_SECS..MARGIN_SECS+MaxSlack
MaxMfr     == 10    \* longest run of exact-manufacturer records
MaxKw      == 10    \* longest run of keyword records
MaxParams  == 2     \* longest parameter list of a product

\* ------------------------------------------------------- program constants
MARGIN_SECS  == 60  \* Duration::from_secs(60)
RECORD_COUNT == 10  \* 10 - parts.len()
MIN_RESULTS  == 5   \* parts.len() < 5

\* ----------------------------------------------------------------- Option
None      == {}
Some(x)   == {x}
IsSome(o) == o /= {}
Unwrap(o) == CHOOSE x \in o : TRUE

Min(a, b) == IF a < b THEN a ELSE b

VARIABLES
    env,                    \* process environment: variable name -> Option<String>
    DIGIKEY_CLIENT_ID,      \* Lazy<String>: None until first use
    DIGIKEY_CLIENT_SECRET,  \* Lazy<String>: None until first use
    TOKEN_CACHE,            \* the value inside the RwLock: Option<TokenCache>
    readers,                \* callers holding a read guard of TOKEN_CACHE
    writer,                 \* callers holding the write guard (at most one)
    now,                    \* Instant::now()
    issued,                 \* tokens issued by the provider so far
    call,                   \* per caller: position and locals of its request
    search_response,        \* AggSpec: the decoded DigiKeySearchResponse
    parts,                  \* AggSpec: the Vec being built
    iter,                   \* AggSpec: products.into_iter().take(remaining), rest
    agg_pc,                 \* AggSpec: position in the aggregation
    envReads,               \* history: std::env::var calls made, per variable
    status_body,            \* CredSpec: the last answer of GET /status
    dk_product,             \* NormSpec: the DigiKeyProduct to convert
    part_info,              \* NormSpec: the DigiKeyPartInfo built from it
    norm_pc                 \* NormSpec: position in the conversion

tokenVars == <<env, DIGIKEY_CLIENT_ID, DIGIKEY_CLIENT_SECRET, TOKEN_CACHE,
               readers, writer, now, issued, call>>
aggVars   == <<search_response, parts, iter, agg_pc>>
normVars  == <<dk_product, part_info, norm_pc>>
auxVars   == <<status_body, normVars>>
vars      == <<tokenVars, aggVars, envReads, auxVars>>

\* two requests are served concurrently
Callers == {1, 2}
\* ------------------------------------------------------------ Part Normalizer
\* Strings that the code inspects (the product status) are sequences of
\* characters; strings it only compares or passes on are opaque values.
\* Manufacturer part numbers are numbered: 0 is the empty string "", 1, 2, ...
\* are distinct non-empty part numbers.
UpperChars == <<"A","B","C","D","E","F","G","H","I","J","K","L","M",
                "N","O","P","Q","R","S","T","U","V","W","X","Y","Z">>
LowerChars == <<"a","b","c","d","e","f","g","h","i","j","k","l","m",
                "n","o","p","q","r","s","t","u","v","w","x","y","z">>

to_lowercase(s) ==
    [i \in 1..Len(s) |->
        IF \E k \in 1..Len(UpperChars) : UpperChars[k] = s[i]
        THEN LowerChars[CHOOSE k \in 1..Len(UpperChars) : UpperChars[k] = s[i]]
        ELSE s[i]]

contains(s, pat) ==
    \E i \in 0..(Len(s) - Len(pat)) : SubSeq(s, i + 1, i + Len(pat)) = pat

KwObsolete     == <<"o","b","s","o","l","e","t","e">>
KwDiscontinued == <<"d","i","s","c","o","n","t","i","n","u","e","d">>
KwNotForNew    == <<"n","o","t"," ","f","o","r"," ","n","e","w"," ",
                    "d","e","s","i","g","n","s">>
KwLastTimeBuy  == <<"l","a","s","t"," ","t","i","m","e"," ","b","u","y">>
StrObsolete    == <<"O","b","s","o","l","e","t","e">>

\* product.product_status.as_ref().and_then(|s| s.status.clone())
status_of(product) ==
    IF IsSome(product.product_status)
    THEN Unwrap(product.product_status).status
    ELSE None

\* a slip: the status is not lower-cased before the keywords are looked for
is_obsolete_of_cased(status) ==
    IF IsSome(status)
    THEN LET s_lower == Unwrap(status)
         IN  \/ contains(s_lower, KwObsolete)
             \/ contains(s_lower, KwDiscontinued)
             \/ contains(s_lower, KwNotForNew)
             \/ contains(s_lower, KwLastTimeBuy)
    ELSE FALSE

\* let is_obsolete = status.as_ref().map(|s| { .. }).unwrap_or(false)
is_obsolete_of(status) ==
    IF IsSome(status)
    THEN LET s_lower == to_lowercase(Unwrap(status))
         IN  \/ contains(s_lower, KwObsolete)
             \/ contains(s_lower, KwDiscontinued)
             \/ contains(s_lower, KwNotForNew)
             \/ contains(s_lower, KwLastTimeBuy)
    ELSE FALSE

lifecycle_status_of(status) ==
    IF is_obsolete_of(status)
    THEN Some(IF IsSome(status) THEN Unwrap(status) ELSE StrObsolete)
    ELSE status

\* a slip: ? on the value too, a parameter without a value is skipped
convert_parameters_strict(ps) ==
    LET kept == SelectSeq(ps, LAMBDA p : IsSome(p.parameter_text)
                                         /\ IsSome(p.value_text))
    IN  [i \in 1..Len(kept) |->
            [name  |-> Unwrap(kept[i].parameter_text),
             value |-> Unwrap(kept[i].value_text)]]

\* filter_map over the parameters: a parameter without a name is skipped,
\* a missing value becomes the empty string
RECURSIVE convert_parameters(_)
convert_parameters(ps) ==
    IF ps = <<>> THEN <<>>
    ELSE LET p == Head(ps)
         IN  IF IsSome(p.parameter_text)
             THEN <<[name  |-> Unwrap(p.parameter_text),
                     value |-> IF IsSome(p.value_text)
                               THEN Unwrap(p.value_text) ELSE <<>>]>>
                  \o convert_parameters(Tail(ps))
             ELSE convert_parameters(Tail(ps))

digikey_part_number_of(product) ==
    IF IsSome(product.product_variations)
       /\ Unwrap(product.product_variations) /= <<>>
    THEN Head(Unwrap(product.product_variations)).digikey_product_number
    ELSE None

convert_product(product) ==
    LET status == status_of(product)
    IN  [digikey_part_number      |-> digikey_part_number_of(product),
         manufacturer_part_number |-> product.manufacturer_part_number,
         manufacturer             |-> IF IsSome(product.manufacturer)
                                      THEN Unwrap(product.manufacturer).name
                                      ELSE None,
         description              |-> IF IsSome(product.description)
                                      THEN Unwrap(product.description).product_description
                                      ELSE None,
         detailed_description     |-> IF IsSome(product.description)
                                      THEN Unwrap(product.description).detailed_description
                                      ELSE None,
         product_url              |-> product.product_url,
         datasheet_url            |-> product.datasheet_url,
         photo_url                |-> product.primary_photo,
         quantity_available       |-> product.quantity_available,
         unit_price               |-> product.unit_price,
         product_status           |-> status,
         is_obsolete              |-> is_obsolete_of(status),
         lifecycle_status         |-> lifecycle_status_of(status),
         category                 |-> IF IsSome(product.category)
                                      THEN Unwrap(product.category).name
                                      ELSE None,
         parameters               |-> IF IsSome(product.parameters)
                                      THEN convert_parameters(Unwrap(product.parameters))
                                      ELSE <<>>]

\* ---------------------------------------------------------- Result Aggregator
\* each product of a bucket, converted in order
convert_all(products) ==
    [i \in 1..Len(products) |-> convert_product(products[i])]

\* First, add exact DigiKey product if found
PushExactDigiKey(ps, resp) ==
    IF IsSome(resp.exact_digikey_product)
    THEN Append(ps, convert_product(Unwrap(resp.exact_digikey_product)))
    ELSE ps

\* a slip: the exact manufacturer matches are put in front of the list
PushExactMfr_front(ps, resp) ==
    IF IsSome(resp.exact_manufacturer_products)
    THEN convert_all(Unwrap(resp.exact_manufacturer_products)) \o ps
    ELSE ps

\* Then add exact manufacturer matches
PushExactMfr(ps, resp) ==
    IF IsSome(resp.exact_manufacturer_products)
    THEN ps \o convert_all(Unwrap(resp.exact_manufacturer_products))
    ELSE ps

already_included(ps, product) ==
    \E i \in 1..Len(ps) :
        ps[i].manufacturer_part_number = product.manufacturer_part_number

\* body of the loop over the keyword matches
KeywordStep(ps, product) ==
    IF ~already_included(ps, product)
    THEN Append(ps, convert_product(product))
    ELSE ps

RECURSIVE KeywordLoop(_, _)
KeywordLoop(ps, products) ==
    IF products = <<>> THEN ps
    ELSE KeywordLoop(KeywordStep(ps, Head(products)), Tail(products))

\* a slip: <= in the place of <
wants_keyword_le(ps) == Len(ps) <= MIN_RESULTS

\* parts.len() < 5
wants_keyword(ps) == Len(ps) < MIN_RESULTS

\* a slip: the take() is left out, every keyword match is looked at
take_remaining_all(ps, products) == products

\* products.into_iter().take(10 - parts.len())
take_remaining(ps, products) ==
    SubSeq(products, 1, Min(RECORD_COUNT - Len(ps), Len(products)))

PushKeyword(ps, resp) ==
    IF wants_keyword(ps) /\ IsSome(resp.products)
    THEN KeywordLoop(ps, take_remaining(ps, Unwrap(resp.products)))
    ELSE ps

\* the list search_keyword returns for a decoded response
aggregate(resp) ==
    PushKeyword(PushExactMfr(PushExactDigiKey(<<>>, resp), resp), resp)
\* ------------------------------------------------------------ provider inputs
\* A provider product carrying only a part number and a product URL; the URL
\* <<bucket, position>> tells the records of a response apart.
Product(mpn, url) ==
    [manufacturer_part_number |-> mpn,
     manufacturer             |-> None,
     description              |-> None,
     product_url              |-> Some(url),
     datasheet_url            |-> None,
     primary_photo            |-> None,
     quantity_available       |-> None,
     unit_price               |-> None,
     product_status           |-> None,
     category                 |-> None,
     parameters               |-> None,
     product_variations       |-> None]

Bucket(name, mpns) == [i \in 1..Len(mpns) |-> Product(mpns[i], <<name, i>>)]

Response(exact, mfr, kw) ==
    [exact_digikey_product       |-> exact,
     exact_manufacturer_products |-> mfr,
     products                    |-> kw]

\* n distinct non-empty part numbers start, start+1, ...
Run(start, n) == [i \in 1..n |-> Some(start + i - 1)]

ExactMpns   == {None, Some(0), Some(1), Some(200)}
MfrPrefixes == {<<>>, <<None>>, <<Some(1)>>}
KwPrefixes  == {<<>>, <<None>>, <<None, None>>, <<Some(0)>>, <<Some(1)>>,
                <<Some(200), Some(200)>>}
KwStarts    == {1, 3, 101}

ExactChoices == {None} \cup {Some(Product(m, <<"exact", 1>>)) : m \in ExactMpns}
MfrChoices   == {None} \cup
    {Some(Bucket("mfr", p \o Run(1, n))) : p \in MfrPrefixes, n \in 0..MaxMfr}
KwChoices    == {None} \cup
    {Some(Bucket("kw", p \o Run(s, n))) :
        p \in KwPrefixes, s \in KwStarts, n \in 0..MaxKw}

\* responses the aggregation is run on in AggSpec
Responses ==
    {Response(e, m, k) : e \in ExactChoices, m \in MfrChoices, k \in KwChoices}

\* P, [A, B], [A, C, D]
MergeExample ==
    Response(Some(Product(Some(200), <<"exact", 1>>)),
             Some(Bucket("mfr", <<Some(1), Some(2)>>)),
             Some(Bucket("kw", <<Some(1), Some(3), Some(4)>>)))

\* only an exact-manufacturer bucket with one record
SingleMfrExample ==
    Response(None, Some(Bucket("mfr", <<Some(1)>>)), None)

\* product statuses, as the characters the code inspects
StActive == <<"A","c","t","i","v","e">>
StDiscontinued == <<"D","i","s","c","o","n","t","i","n","u","e","d">>
StObsoleteUpper == <<"O","B","S","O","L","E","T","E">>
StNotForNew == <<"N","o","t"," ","F","o","r"," ","N","e","w"," ","D","e","s","i","g","n","s">>
StLastTimeBuy == <<"L","a","s","t"," ","T","i","m","e"," ","B","u","y">>
StDiscAtDk == <<"D","i","s","c","o","n","t","i","n","u","e","d"," ","a","t"," ","D","i","g","i","-","K","e","y">>
StPreliminary == <<"P","r","e","l","i","m","i","n","a","r","y">>
StObsolet == <<"O","b","s","o","l","e","t">>
StLastBuy == <<"L","a","s","t"," ","B","u","y">>
StatusTexts == {StActive, StDiscontinued, StrObsolete, StObsoleteUpper,
                StNotForNew, StLastTimeBuy, StDiscAtDk, StPreliminary,
                StObsolet, StLastBuy, <<>>}
StatusChoices ==
    {None, Some([status |-> None])}
        \cup {Some([status |-> Some(t)]) : t \in StatusTexts}

\* parameters: two names and one value, each present or missing
ParamNameA == <<"R">>
ParamNameB == <<"T","o","l">>
ParamValue == <<"1","k">>
ParamChoices ==
    {[parameter_text |-> n, value_text |-> v] :
        n \in {None, Some(ParamNameA), Some(ParamNameB)},
        v \in {None, Some(ParamValue)}}
ParameterLists == UNION {[1..k -> ParamChoices] : k \in 0..MaxParams}
ParameterChoices == {None} \cup {Some(ps) : ps \in ParameterLists}

\* the products convert_product is run on in NormSpec
NormProducts ==
    {[Product(None, <<"norm", 1>>) EXCEPT !.product_status = st,
                                          !.parameters = ps] :
        st \in StatusChoices, ps \in ParameterChoices}

NoProduct == Product(None, <<"off", 0>>)

\* responses the provider gives to the concurrent callers of Spec
SearchResponses == {Response(None, None, None), SingleMfrExample, MergeExample}
\* ---------------------------------------------------------- Credential Source
EnvId     == "DIGIKEY_CLIENT_ID"
EnvSecret == "DIGIKEY_CLIENT_SECRET"
NoReads   == [n \in {EnvId, EnvSecret} |-> 0]
EnvChoices ==
    {[n \in {EnvId, EnvSecret} |-> IF n = EnvId THEN i ELSE s] :
        i \in {None, Some(""), Some("id")},
        s \in {None, Some(""), Some("secret")}}

\* a slip: a plain function in the place of Lazy, the environment is looked
\* at on every use
lazy_value_reread(cell, name) ==
    IF IsSome(env[name]) THEN Unwrap(env[name]) ELSE ""

\* Lazy::new(|| std::env::var(name).unwrap_or_else(|_| String::new())),
\* dereferenced: the memoized value, or the environment's on first use
lazy_value(cell, name) ==
    IF IsSome(cell) THEN Unwrap(cell)
    ELSE IF IsSome(env[name]) THEN Unwrap(env[name]) ELSE ""

\* the std::env::var calls one dereference makes: the closure of Lazy::new
\* runs only while the cell is empty
env_reads(cell) == IF IsSome(cell) THEN 0 ELSE 1

client_id     == lazy_value(DIGIKEY_CLIENT_ID, EnvId)
client_secret == lazy_value(DIGIKEY_CLIENT_SECRET, EnvSecret)

\* a slip: || in the place of &&
is_configured_either == client_id /= "" \/ client_secret /= ""

\* !DIGIKEY_CLIENT_ID.is_empty() && !DIGIKEY_CLIENT_SECRET.is_empty()
is_configured == client_id /= "" /\ client_secret /= ""

\* what evaluating is_configured() memoizes: && does not touch the secret
\* when the client id is empty
IsConfiguredForces ==
    /\ DIGIKEY_CLIENT_ID' = Some(client_id)
    /\ DIGIKEY_CLIENT_SECRET' =
           IF client_id /= "" THEN Some(client_secret) ELSE DIGIKEY_CLIENT_SECRET
    /\ envReads' =
           [envReads EXCEPT
               ![EnvId] = @ + env_reads(DIGIKEY_CLIENT_ID),
               ![EnvSecret] = IF client_id /= ""
                              THEN @ + env_reads(DIGIKEY_CLIENT_SECRET) ELSE @]

\* ------------------------------------------------------------------ messages
ErrNotConfigured == "DigiKey API not configured"
ErrTokenSend     == "Failed to send token request to DigiKey"
ErrAuthFailed    == "DigiKey authentication failed"
ErrTokenParse    == "Failed to parse DigiKey token response"
ErrSearchSend    == "Failed to send search request to DigiKey"
ErrSearchFailed  == "DigiKey search failed"
ErrSearchParse   == "Failed to parse DigiKey search response"

Ok(ps)   == [ok |-> TRUE,  err |-> "",  parts |-> ps]
Err(msg) == [ok |-> FALSE, err |-> msg, parts |-> <<>>]

\* ------------------------------------------------------------- POST /search
Requests == {[query |-> "q", mpn |-> None], [query |-> "q", mpn |-> Some("m")]}
Queries  == {"q"}

\* a slip: the mpn field is ignored
search_query_plain(req) == req.query

\* req.mpn.as_ref().unwrap_or(&req.query)
search_query(req) == IF IsSome(req.mpn) THEN Unwrap(req.mpn) ELSE req.query

\* a slip: the status of the other error answers of the API
not_configured_response_500 ==
    [status |-> 500,
     body   |-> [code |-> "not_configured", query |-> "", success |-> FALSE,
                 error |-> None, parts |-> <<>>, total_count |-> 0]]

\* Err((StatusCode::SERVICE_UNAVAILABLE, Json(ApiError::new("not_configured", ..))))
not_configured_response ==
    [status |-> 503,
     body   |-> [code |-> "not_configured", query |-> "", success |-> FALSE,
                 error |-> None, parts |-> <<>>, total_count |-> 0]]

\* a slip: the count of the failure branch
success_response_uncounted(req, ps) ==
    [status |-> 200,
     body   |-> [code |-> "", query |-> search_query(req), success |-> TRUE,
                 error |-> None, parts |-> ps, total_count |-> 0]]

\* Ok(parts) => Ok(Json(DigiKeySearchResponse { .. success: true .. }))
success_response(req, ps) ==
    [status |-> 200,
     body   |-> [code |-> "", query |-> search_query(req), success |-> TRUE,
                 error |-> None, parts |-> ps, total_count |-> Len(ps)]]

\* a slip: the error is propagated as an HTTP error
failure_response_500(req, e) ==
    [status |-> 500,
     body   |-> [code |-> "internal_error", query |-> "", success |-> FALSE,
                 error |-> Some(e), parts |-> <<>>, total_count |-> 0]]

\* Err(e) => Ok(Json(DigiKeySearchResponse { .. success: false .. }))
failure_response(req, e) ==
    [status |-> 200,
     body   |-> [code |-> "", query |-> search_query(req), success |-> FALSE,
                 error |-> Some(e), parts |-> <<>>, total_count |-> 0]]

\* match search_result { .. }
search_parts_response(req, result) ==
    IF result.ok THEN success_response(req, result.parts)
    ELSE failure_response(req, result.err)

NoHttp == [status |-> 0,
           body   |-> [code |-> "", query |-> "", success |-> FALSE,
                       error |-> None, parts |-> <<>>, total_count |-> 0]]
NoResponse == [kind |-> "none", access_token |-> 0, expires_in |-> 0]
NoTokenRequest  == [client_id |-> "", client_secret |-> ""]
NoSearchRequest == [keywords |-> "", client_id |-> ""]

\* let params = [("client_id", ..), ("client_secret", ..), ("grant_type", ..)]
token_request == [client_id |-> client_id, client_secret |-> client_secret]

\* KeywordSearchRequest { keywords: query.to_string(), .. } with the header
\* X-DIGIKEY-Client-Id; the Authorization header carries the access_token
\* of the call record
search_request(query) == [keywords |-> query, client_id |-> client_id]

\* a caller that is not inside a request
IdleCall ==
    [pc           |-> "idle",
     kind         |-> "none",      \* "http": POST /search, "direct": search_keyword
     req          |-> [query |-> "", mpn |-> None],
     query        |-> "",          \* the term search_keyword was called with
     access_token |-> 0,           \* the token get_access_token returned
     response     |-> NoResponse,  \* the token endpoint's response
     expires_at   |-> 0,           \* local expires_at of get_access_token
     result       |-> Err(""),     \* what search_keyword returned
     http         |-> NoHttp,      \* what search_parts answered
     \* history of this request
     invoked      |-> FALSE,       \* search_keyword was called
     tokenReqs    |-> 0,           \* token requests sent
     searchReqs   |-> 0,           \* search requests sent
     cacheReads   |-> 0,           \* read guards taken
     cacheWrites  |-> 0,           \* writes to the slot
     hit          |-> FALSE,       \* the cached token was used
     tokenSent    |-> NoTokenRequest,   \* the token request sent
     searchSent   |-> NoSearchRequest,  \* the search request sent
     searched     |-> None,        \* the search response that was decoded
     respAt       |-> 0,           \* the clock when the token response arrived
     fault        |-> ""]          \* the provider failure this request met

\* the request ends: search_keyword returns `result` (its locals are dropped),
\* and for POST /search the handler turns it into its answer
Finish(rec, result) ==
    [rec EXCEPT !.pc = "done",
                !.access_token = 0,
                !.response = NoResponse,
                !.expires_at = 0,
                !.respAt = 0,
                !.result = result,
                !.http = IF rec.kind = "http"
                         THEN search_parts_response(rec.req, result)
                         ELSE NoHttp]

\* --------------------------------------------------------------- Token Manager
ExpiresIn == {MARGIN_SECS + k : k \in 0..MaxSlack}

\* a slip: the margin is taken off the lifetime and added to the clock
cache_usable_twice(cached, t) ==
    cached.expires_at - MARGIN_SECS > t + MARGIN_SECS

\* a slip: >= in the place of >
cache_usable_ge(cached, t) == cached.expires_at >= t + MARGIN_SECS

\* cached.expires_at > Instant::now() + Duration::from_secs(60)
cache_usable(cached, t) == cached.expires_at > t + MARGIN_SECS

\* a slip: the guard lives to the end of the function
release_read_late(c) == readers

\* the read guard is dropped at the end of the block
release_read(c) == readers \ {c}

\* Instant::now() + Duration::from_secs(token_response.expires_in)
compute_expires_at(t, token_response) == t + token_response.expires_in

\* a slip: the entry is merged with the old one, the later expiry is kept
new_cache_merged(old, token_response, expires_at) ==
    Some([access_token |-> token_response.access_token,
          expires_at   |-> IF IsSome(old) /\ Unwrap(old).expires_at > expires_at
                           THEN Unwrap(old).expires_at
                           ELSE expires_at])

\* *cache = Some(TokenCache { access_token, expires_at })
new_cache(old, token_response, expires_at) ==
    Some([access_token |-> token_response.access_token,
          expires_at   |-> expires_at])

Init ==
    /\ env \in EnvChoices
    /\ DIGIKEY_CLIENT_ID = None
    /\ DIGIKEY_CLIENT_SECRET = None
    /\ TOKEN_CACHE = None
    /\ readers = {}
    /\ writer = {}
    /\ now = 0
    /\ issued = 0
    /\ call = [c \in Callers |-> IdleCall]
    /\ search_response = Response(None, None, None)
    /\ parts = <<>>
    /\ iter = <<>>
    /\ agg_pc = "off"
    /\ envReads = NoReads
    /\ status_body = None
    /\ dk_product = NoProduct
    /\ part_info = convert_product(NoProduct)
    /\ norm_pc = "off"

\* search_parts, up to the call of search_keyword
SearchParts(c, r) ==
    /\ call[c].pc = "idle"
    /\ IsConfiguredForces
    /\ call' = [call EXCEPT ![c] =
          IF ~is_configured
          THEN [IdleCall EXCEPT !.pc = "done", !.kind = "http", !.req = r,
                                !.http = not_configured_response]
          ELSE [IdleCall EXCEPT !.pc = "search_keyword", !.kind = "http",
                                !.req = r, !.query = search_query(r),
                                !.invoked = TRUE]]
    /\ UNCHANGED <<env, TOKEN_CACHE, readers, writer, now, issued, aggVars, auxVars>>

\* search_keyword called by other code of the crate
CallSearchKeyword(c, q) ==
    /\ call[c].pc = "idle"
    /\ call' = [call EXCEPT ![c] =
          [IdleCall EXCEPT !.pc = "search_keyword", !.kind = "direct",
                           !.query = q, !.invoked = TRUE]]
    /\ UNCHANGED <<env, envReads, DIGIKEY_CLIENT_ID, DIGIKEY_CLIENT_SECRET, TOKEN_CACHE,
                   readers, writer, now, issued, aggVars, auxVars>>

\* search_keyword: if !Self::is_configured() { bail!(..) }
SearchKeywordEntry(c) ==
    /\ call[c].pc = "search_keyword"
    /\ IsConfiguredForces
    /\ call' = [call EXCEPT ![c] =
          IF ~is_configured
          THEN Finish(call[c], Err(ErrNotConfigured))
          ELSE [call[c] EXCEPT !.pc = "read_lock"]]
    /\ UNCHANGED <<env, TOKEN_CACHE, readers, writer, now, issued, aggVars, auxVars>>

\* get_access_token: TOKEN_CACHE.read()
AcquireRead(c) ==
    /\ call[c].pc = "read_lock"
    /\ writer = {}
    /\ readers' = readers \cup {c}
    /\ call' = [call EXCEPT ![c].pc = "check_cache",
                            ![c].cacheReads = @ + 1]
    /\ UNCHANGED <<env, envReads, DIGIKEY_CLIENT_ID, DIGIKEY_CLIENT_SECRET, TOKEN_CACHE,
                   writer, now, issued, aggVars, auxVars>>

\* get_access_token: the block under the read guard, and what follows it up
\* to the next await: on a hit the return and the send() of the search request
\* of search_keyword, on a miss the send() of the token request
CheckCache(c) ==
    /\ call[c].pc = "check_cache"
    /\ call' = [call EXCEPT ![c] =
          IF IsSome(TOKEN_CACHE) /\ cache_usable(Unwrap(TOKEN_CACHE), now)
          THEN [@ EXCEPT !.pc = "search_await",
                         !.access_token = Unwrap(TOKEN_CACHE).access_token,
                         !.hit = TRUE,
                         !.searchReqs = @ + 1,
                         !.searchSent =
                             search_request(call[c].query)]
          ELSE [@ EXCEPT !.pc = "token_await",
                         !.tokenReqs = @ + 1,
                         !.tokenSent = token_request]]
    /\ readers' = release_read(c)
    /\ UNCHANGED <<env, envReads, DIGIKEY_CLIENT_ID, DIGIKEY_CLIENT_SECRET, TOKEN_CACHE,
                   writer, now, issued, aggVars, auxVars>>

\* a slip: the failure of the token request is swallowed and the search
\* request goes out without a token
token_failure_swallowed(rec, kind) ==
    [rec EXCEPT !.pc = "search_await",
                !.searchReqs = @ + 1,
                !.searchSent = search_request(rec.query),
                !.fault = kind]

\* the call record once the token request has met failure `kind`
token_failure(rec, kind) ==
    [rec EXCEPT !.pc = "token_response",
                !.response = [NoResponse EXCEPT !.kind = kind],
                !.fault = kind]

\* the request does not get through (or times out)
TokenTransportError(c) ==
    /\ call[c].pc = "token_await"
    /\ call' = [call EXCEPT ![c] = token_failure(@, "token_transport")]
    /\ UNCHANGED <<env, envReads, DIGIKEY_CLIENT_ID, DIGIKEY_CLIENT_SECRET, TOKEN_CACHE,
                   readers, writer, now, issued, aggVars, auxVars>>

\* the provider answers with a non-success status
TokenRejected(c) ==
    /\ call[c].pc = "token_await"
    /\ call' = [call EXCEPT ![c] = token_failure(@, "token_rejected")]
    /\ UNCHANGED <<env, envReads, DIGIKEY_CLIENT_ID, DIGIKEY_CLIENT_SECRET, TOKEN_CACHE,
                   readers, writer, now, issued, aggVars, auxVars>>

\* the provider answers 2xx with a body that is no TokenResponse
TokenMalformed(c) ==
    /\ call[c].pc = "token_await"
    /\ call' = [call EXCEPT ![c] = token_failure(@, "token_malformed")]
    /\ UNCHANGED <<env, envReads, DIGIKEY_CLIENT_ID, DIGIKEY_CLIENT_SECRET, TOKEN_CACHE,
                   readers, writer, now, issued, aggVars, auxVars>>

\* the provider issues a new token
TokenIssued(c) ==
    /\ call[c].pc = "token_await"
    /\ issued < MaxIssued
    /\ issued' = issued + 1
    /\ \E e \in ExpiresIn :
          call' = [call EXCEPT ![c].pc = "token_response",
                               ![c].response = [kind         |-> "ok",
                                                access_token |-> issued + 1,
                                                expires_in   |-> e]]
    /\ UNCHANGED <<env, envReads, DIGIKEY_CLIENT_ID, DIGIKEY_CLIENT_SECRET, TOKEN_CACHE,
                   readers, writer, now, aggVars, auxVars>>

\* a slip: a failed refresh throws the entry in the slot away
ReceiveTokenResponse_clears(c) ==
    /\ call[c].pc = "token_response"
    /\ call' = [call EXCEPT ![c] =
          CASE @.response.kind = "token_transport" -> Finish(@, Err(ErrTokenSend))
            [] @.response.kind = "token_rejected"  -> Finish(@, Err(ErrAuthFailed))
            [] @.response.kind = "token_malformed" -> Finish(@, Err(ErrTokenParse))
            [] OTHER ->
                 [@ EXCEPT !.pc = "write_lock",
                           !.respAt = now,
                           !.expires_at = compute_expires_at(now, call[c].response)]]
    /\ TOKEN_CACHE' = IF call[c].response.kind = "ok" THEN TOKEN_CACHE ELSE None
    /\ UNCHANGED <<env, envReads, DIGIKEY_CLIENT_ID, DIGIKEY_CLIENT_SECRET,
                   readers, writer, now, issued, aggVars, auxVars>>

\* get_access_token: from the end of send().await to expires_at
ReceiveTokenResponse(c) ==
    /\ call[c].pc = "token_response"
    /\ call' = [call EXCEPT ![c] =
          CASE @.response.kind = "token_transport" -> Finish(@, Err(ErrTokenSend))
            [] @.response.kind = "token_rejected"  -> Finish(@, Err(ErrAuthFailed))
            [] @.response.kind = "token_malformed" -> Finish(@, Err(ErrTokenParse))
            [] OTHER ->
                 [@ EXCEPT !.pc = "write_lock",
                           !.respAt = now,
                           !.expires_at = compute_expires_at(now, call[c].response)]]
    /\ UNCHANGED <<env, envReads, DIGIKEY_CLIENT_ID, DIGIKEY_CLIENT_SECRET, TOKEN_CACHE,
                   readers, writer, now, issued, aggVars, auxVars>>

\* get_access_token: TOKEN_CACHE.write()
AcquireWrite(c) ==
    /\ call[c].pc = "write_lock"
    /\ readers = {}
    /\ writer = {}
    /\ writer' = {c}
    /\ call' = [call EXCEPT ![c].pc = "write_cache"]
    /\ UNCHANGED <<env, envReads, DIGIKEY_CLIENT_ID, DIGIKEY_CLIENT_SECRET, TOKEN_CACHE,
                   readers, now, issued, aggVars, auxVars>>

\* get_access_token: the block under the write guard and the return (its
\* locals are dropped), then search_keyword up to the send() of the search
\* request
WriteCache(c) ==
    /\ call[c].pc = "write_cache"
    /\ TOKEN_CACHE' = new_cache(TOKEN_CACHE, call[c].response, call[c].expires_at)
    /\ writer' = writer \ {c}
    /\ call' = [call EXCEPT ![c].pc = "search_await",
                            ![c].access_token = call[c].response.access_token,
                            ![c].response = NoResponse,
                            ![c].expires_at = 0,
                            ![c].respAt = 0,
                            ![c].cacheWrites = @ + 1,
                            ![c].searchReqs = @ + 1,
                            ![c].searchSent =
                                search_request(call[c].query)]
    /\ UNCHANGED <<env, envReads, DIGIKEY_CLIENT_ID, DIGIKEY_CLIENT_SECRET,
                   readers, now, issued, aggVars, auxVars>>

\* search_keyword, from the end of send().await to its return: the send fails
SearchTransportError(c) ==
    /\ call[c].pc = "search_await"
    /\ call' = [call EXCEPT ![c] =
          Finish([@ EXCEPT !.fault = "search_transport"], Err(ErrSearchSend))]
    /\ UNCHANGED <<env, envReads, DIGIKEY_CLIENT_ID, DIGIKEY_CLIENT_SECRET, TOKEN_CACHE,
                   readers, writer, now, issued, aggVars, auxVars>>

\* the provider answers with a non-success status
SearchRejected(c) ==
    /\ call[c].pc = "search_await"
    /\ call' = [call EXCEPT ![c] =
          Finish([@ EXCEPT !.fault = "search_rejected"], Err(ErrSearchFailed))]
    /\ UNCHANGED <<env, envReads, DIGIKEY_CLIENT_ID, DIGIKEY_CLIENT_SECRET, TOKEN_CACHE,
                   readers, writer, now, issued, aggVars, auxVars>>

\* the provider answers 2xx with a body that is no DigiKeySearchResponse
SearchMalformed(c) ==
    /\ call[c].pc = "search_await"
    /\ call' = [call EXCEPT ![c] =
          Finish([@ EXCEPT !.fault = "search_malformed"], Err(ErrSearchParse))]
    /\ UNCHANGED <<env, envReads, DIGIKEY_CLIENT_ID, DIGIKEY_CLIENT_SECRET, TOKEN_CACHE,
                   readers, writer, now, issued, aggVars, auxVars>>

\* the provider answers with a response that decodes; it is aggregated
SearchOk(c) ==
    /\ call[c].pc = "search_await"
    /\ \E resp \in SearchResponses :
          call' = [call EXCEPT ![c] =
              Finish([@ EXCEPT !.searched = Some(resp)], Ok(aggregate(resp)))]
    /\ UNCHANGED <<env, envReads, DIGIKEY_CLIENT_ID, DIGIKEY_CLIENT_SECRET, TOKEN_CACHE,
                   readers, writer, now, issued, aggVars, auxVars>>

\* the answer is delivered; the caller may start another request
Return(c) ==
    /\ call[c].pc = "done"
    /\ call' = [call EXCEPT ![c] = IdleCall]
    /\ UNCHANGED <<env, envReads, DIGIKEY_CLIENT_ID, DIGIKEY_CLIENT_SECRET, TOKEN_CACHE,
                   readers, writer, now, issued, aggVars, auxVars>>

\* time passes
Tick ==
    /\ now < MaxNow
    /\ now' = now + 1
    /\ UNCHANGED <<env, envReads, DIGIKEY_CLIENT_ID, DIGIKEY_CLIENT_SECRET, TOKEN_CACHE,
                   readers, writer, issued, call, aggVars, auxVars>>

Next ==
    \/ \E c \in Callers, r \in Requests : SearchParts(c, r)
    \/ \E c \in Callers, q \in Queries : CallSearchKeyword(c, q)
    \/ \E c \in Callers : SearchKeywordEntry(c)
    \/ \E c \in Callers : AcquireRead(c)
    \/ \E c \in Callers : CheckCache(c)
    \/ \E c \in Callers : TokenTransportError(c)
    \/ \E c \in Callers : TokenRejected(c)
    \/ \E c \in Callers : TokenMalformed(c)
    \/ \E c \in Callers : TokenIssued(c)
    \/ \E c \in Callers : ReceiveTokenResponse(c)
    \/ \E c \in Callers : AcquireWrite(c)
    \/ \E c \in Callers : WriteCache(c)
    \/ \E c \in Callers : SearchTransportError(c)
    \/ \E c \in Callers : SearchRejected(c)
    \/ \E c \in Callers : SearchMalformed(c)
    \/ \E c \in Callers : SearchOk(c)
    \/ \E c \in Callers : Return(c)
    \/ Tick

Spec == Init /\ [][Next]_vars
\* ------------------------------------------------- AggSpec: the aggregation
\* search_keyword from `let mut parts = Vec::new()` to `Ok(parts)`, on any
\* response of Responses; the token state stays as at process start.
AggInit ==
    /\ env = [n \in {EnvId, EnvSecret} |-> None]
    /\ DIGIKEY_CLIENT_ID = None
    /\ DIGIKEY_CLIENT_SECRET = None
    /\ TOKEN_CACHE = None
    /\ readers = {}
    /\ writer = {}
    /\ now = 0
    /\ issued = 0
    /\ call = [c \in Callers |-> IdleCall]
    /\ search_response \in Responses
    /\ parts = <<>>
    /\ iter = <<>>
    /\ agg_pc = "exact_digikey"
    /\ envReads = NoReads
    /\ status_body = None
    /\ dk_product = NoProduct
    /\ part_info = convert_product(NoProduct)
    /\ norm_pc = "off"

\* if let Some(exact_dk) = search_response.exact_digikey_product { .. }
AggExactDigiKey ==
    /\ agg_pc = "exact_digikey"
    /\ parts' = PushExactDigiKey(parts, search_response)
    /\ agg_pc' = "exact_mfr"
    /\ UNCHANGED <<search_response, iter, tokenVars, envReads, auxVars>>

\* if let Some(exact_mfr) = search_response.exact_manufacturer_products { .. }
AggExactMfr ==
    /\ agg_pc = "exact_mfr"
    /\ parts' = PushExactMfr(parts, search_response)
    /\ agg_pc' = "keyword"
    /\ UNCHANGED <<search_response, iter, tokenVars, envReads, auxVars>>

\* if parts.len() < 5 { if let Some(products) = .. { the iterator is built
AggKeywordBegin ==
    /\ agg_pc = "keyword"
    /\ wants_keyword(parts)
    /\ IsSome(search_response.products)
    /\ iter' = take_remaining(parts, Unwrap(search_response.products))
    /\ agg_pc' = "keyword_loop"
    /\ UNCHANGED <<search_response, parts, tokenVars, envReads, auxVars>>

\* the keyword matches are not looked at
AggKeywordSkip ==
    /\ agg_pc = "keyword"
    /\ ~(wants_keyword(parts) /\ IsSome(search_response.products))
    /\ agg_pc' = "done"
    /\ UNCHANGED <<search_response, parts, iter, tokenVars, envReads, auxVars>>

\* one iteration of the for loop
AggKeywordNext ==
    /\ agg_pc = "keyword_loop"
    /\ iter /= <<>>
    /\ parts' = KeywordStep(parts, Head(iter))
    /\ iter' = Tail(iter)
    /\ UNCHANGED <<search_response, agg_pc, tokenVars, envReads, auxVars>>

\* the iterator is exhausted
AggKeywordEnd ==
    /\ agg_pc = "keyword_loop"
    /\ iter = <<>>
    /\ agg_pc' = "done"
    /\ UNCHANGED <<search_response, parts, iter, tokenVars, envReads, auxVars>>

AggNext ==
    \/ AggExactDigiKey
    \/ AggExactMfr
    \/ AggKeywordBegin
    \/ AggKeywordSkip
    \/ AggKeywordNext
    \/ AggKeywordEnd

AggSpec == AggInit /\ [][AggNext]_vars
\* ---------------------------------------- CredSpec: a changing environment
\* One client of POST /search, GET /status, and code of the process that sets
\* the environment variables while the server runs. The clock stands still:
\* the credentials do not depend on it.
CredCallers == {1}
EnvValues == {None, Some(""), Some("changed")}

MsgConfigured    == "DigiKey API is configured and ready"
MsgNotConfigured == "DigiKey API is not configured"

\* json!({ "configured": .., "message": if .. { .. } else { .. } })
status_response ==
    [configured |-> is_configured,
     message    |-> IF is_configured THEN MsgConfigured ELSE MsgNotConfigured]

\* GET /status
GetStatus ==
    /\ IsConfiguredForces
    /\ status_body' = Some(status_response)
    /\ UNCHANGED <<env, TOKEN_CACHE, readers, writer, now, issued, call,
                   aggVars, normVars>>

\* the process sets or removes one of the two environment variables
SetEnv(n, v) ==
    /\ env[n] /= v
    /\ env' = [env EXCEPT ![n] = v]
    /\ UNCHANGED <<envReads, DIGIKEY_CLIENT_ID, DIGIKEY_CLIENT_SECRET,
                   TOKEN_CACHE, readers, writer, now, issued, call,
                   aggVars, auxVars>>

CredNext ==
    \/ \E n \in {EnvId, EnvSecret}, v \in EnvValues : SetEnv(n, v)
    \/ GetStatus
    \/ \E c \in CredCallers, r \in Requests : SearchParts(c, r)
    \/ \E c \in CredCallers : SearchKeywordEntry(c)
    \/ \E c \in CredCallers : AcquireRead(c)
    \/ \E c \in CredCallers : CheckCache(c)
    \/ \E c \in CredCallers : TokenTransportError(c)
    \/ \E c \in CredCallers : TokenRejected(c)
    \/ \E c \in CredCallers : TokenMalformed(c)
    \/ \E c \in CredCallers : TokenIssued(c)
    \/ \E c \in CredCallers : ReceiveTokenResponse(c)
    \/ \E c \in CredCallers : AcquireWrite(c)
    \/ \E c \in CredCallers : WriteCache(c)
    \/ \E c \in CredCallers : SearchTransportError(c)
    \/ \E c \in CredCallers : SearchRejected(c)
    \/ \E c \in CredCallers : SearchMalformed(c)
    \/ \E c \in CredCallers : SearchOk(c)
    \/ \E c \in CredCallers : Return(c)

CredSpec == Init /\ [][CredNext]_vars
\* ------------------------------------------------ NormSpec: convert_product
\* convert_product on any product of NormProducts; the token state stays as
\* at process start.
NormInit ==
    /\ env = [n \in {EnvId, EnvSecret} |-> None]
    /\ DIGIKEY_CLIENT_ID = None
    /\ DIGIKEY_CLIENT_SECRET = None
    /\ TOKEN_CACHE = None
    /\ readers = {}
    /\ writer = {}
    /\ now = 0
    /\ issued = 0
    /\ call = [c \in Callers |-> IdleCall]
    /\ search_response = Response(None, None, None)
    /\ parts = <<>>
    /\ iter = <<>>
    /\ agg_pc = "off"
    /\ envReads = NoReads
    /\ status_body = None
    /\ dk_product \in NormProducts
    /\ part_info = convert_product(NoProduct)
    /\ norm_pc = "call"

\* fn convert_product(product: DigiKeyProduct) -> DigiKeyPartInfo
ConvertProduct ==
    /\ norm_pc = "call"
    /\ part_info' = convert_product(dk_product)
    /\ norm_pc' = "done"
    /\ UNCHANGED <<dk_product, status_body, tokenVars, aggVars, envReads>>

NormNext == ConvertProduct

NormSpec == NormInit /\ [][NormNext]_vars
\* ================================================= claims on the aggregation
\* what identifies a record of a response, before and after convert_product
Key(r) == <<r.product_url, r.manufacturer_part_number>>
Keys(rs) == [i \in 1..Len(rs) |-> Key(rs[i])]

RECURSIVE IsSubseq(_, _)
IsSubseq(a, b) ==
    \/ a = <<>>
    \/ /\ b /= <<>>
       /\ IF Head(a) = Head(b) THEN IsSubseq(Tail(a), Tail(b))
          ELSE IsSubseq(a, Tail(b))

OptSeq(o) == IF IsSome(o) THEN Unwrap(o) ELSE <<>>
ExactKeys == Keys(IF IsSome(search_response.exact_digikey_product)
                         THEN <<Unwrap(search_response.exact_digikey_product)>>
                         ELSE <<>>)
MfrKeys   == Keys(OptSeq(search_response.exact_manufacturer_products))
KwKeys    == Keys(OptSeq(search_response.products))
PartKeys  == Keys(parts)
PartMpns  == [i \in 1..Len(parts) |-> parts[i].manufacturer_part_number]

\* C4: Merge priority. The returned list is the exact-catalog-product record
\* (if present), then every exact-manufacturer record in provider order, then
\* a subsequence of the keyword records in provider order; absent buckets
\* contribute nothing; P, [A, B], [A, C, D] yields [P, A, B, C, D].
C4_MergePriority ==
    agg_pc = "done" =>
        LET n == Len(ExactKeys) + Len(MfrKeys)
        IN  /\ Len(parts) >= n
            /\ SubSeq(PartKeys, 1, n) = ExactKeys \o MfrKeys
            /\ IsSubseq(SubSeq(PartKeys, n + 1, Len(parts)), KwKeys)
            /\ search_response = MergeExample =>
                   PartMpns = <<Some(200), Some(1), Some(2), Some(3), Some(4)>>

\* the merge example has been aggregated, with all three buckets contributing
C4_Witness ==
    /\ agg_pc = "done"
    /\ search_response = MergeExample
    /\ Len(parts) = 5

\* C5: Hard cap. Whatever the sizes of the three buckets, the returned list
\* holds at most 10 records.
C5_HardCap == agg_pc = "done" => Len(parts) <= RECORD_COUNT

\* C6: a keyword record without a manufacturer part number is never dropped
\* as a duplicate: every such record the loop looks at is appended.
C6_AbsentMpnKept ==
    [][(agg_pc = "keyword_loop" /\ iter /= <<>>
        /\ Head(iter).manufacturer_part_number = None)
       => PartKeys' = Append(PartKeys, Key(Head(iter)))]_vars

\* C7: no two records of the returned list carry the same non-empty
\* manufacturer part number.
C7_Deduplicated ==
    agg_pc = "done" =>
        \A i, j \in 1..Len(parts) :
            (i < j /\ PartMpns[i] = PartMpns[j]) => PartMpns[i] \in {None, Some(0)}
\* ============================================ claims on the concurrent callers
\* the slot holds an entry with expires_at > now + 60 s
Fresh ==
    /\ IsSome(TOKEN_CACHE)
    /\ Unwrap(TOKEN_CACHE).expires_at > now + MARGIN_SECS

\* caller c leaves the block under the read guard in this step
Checks(c) == call[c].pc = "check_cache" /\ call'[c].pc /= "check_cache"

\* caller c leaves the block under the write guard in this step
Writes(c) == call[c].pc = "write_cache" /\ call'[c].pc /= "write_cache"

\* C1: Token reuse. A call of get_access_token that finds an entry with
\* expires_at > now + 60 s sends no token request, returns exactly the cached
\* access_token and leaves the slot unchanged.
C1_TokenReuse ==
    /\ [][\A c \in Callers :
            (Checks(c) /\ Fresh) =>
                /\ call'[c].hit
                /\ call'[c].access_token = Unwrap(TOKEN_CACHE).access_token
                /\ call'[c].tokenReqs = 0
                /\ call'[c].cacheWrites = 0
                /\ TOKEN_CACHE' = TOKEN_CACHE]_vars
    /\ [](\A c \in Callers :
            call[c].hit => call[c].tokenReqs = 0 /\ call[c].cacheWrites = 0)

\* a caller has been given the cached token and is searching with it
C1_Witness ==
    \E c \in Callers :
        /\ call[c].hit
        /\ call[c].pc = "search_await"
        /\ IsSome(TOKEN_CACHE)
        /\ call[c].access_token = Unwrap(TOKEN_CACHE).access_token

InFlight(c) == call[c].pc \in {"token_await", "token_response"}

\* C3: no caller holds the read or the write lock on the slot while its token
\* request is in flight; the write lock is held only once the response has
\* been received and decoded.
C3_NoLockAcrossRequest ==
    \A c \in Callers :
        /\ InFlight(c) => c \notin readers /\ c \notin writer
        /\ c \in readers => call[c].pc = "check_cache"
        /\ c \in writer =>
              /\ call[c].pc = "write_cache"
              /\ call[c].response.kind = "ok"

\* a reader is inside the slot while another caller's token request is out
C3_Witness ==
    \E c, d \in Callers :
        /\ call[c].pc = "token_await"
        /\ d \in readers

\* the environment gives no client id or no client secret
EnvUnconfigured == \E n \in {EnvId, EnvSecret} : env[n] \in {None, Some("")}

\* C8: Unconfigured short-circuit. With the client id or the client secret
\* empty or unset, search_keyword fails with the not-configured error, no
\* token or search request is sent and the slot is neither read nor written.
C8_UnconfiguredShortCircuit ==
    EnvUnconfigured =>
        /\ TOKEN_CACHE = None /\ readers = {} /\ writer = {}
        /\ \A c \in Callers :
              /\ call[c].tokenReqs = 0 /\ call[c].searchReqs = 0
              /\ call[c].cacheReads = 0 /\ call[c].cacheWrites = 0
              /\ (call[c].kind = "direct" /\ call[c].pc = "done") =>
                    call[c].result = Err(ErrNotConfigured)

\* search_keyword, called with the client secret missing, has failed
C8_Witness ==
    \E c \in Callers :
        /\ call[c].kind = "direct"
        /\ call[c].pc = "done"
        /\ call[c].result = Err(ErrNotConfigured)
        /\ env[EnvId] = Some("id")
        /\ env[EnvSecret] = None

\* C9: unconfigured, POST /search answers 503 with a 'not_configured' error
\* body before search_keyword is invoked; configured, it never answers 503.
C9_NotConfigured503 ==
    \A c \in Callers :
        call[c].kind = "http" =>
            /\ EnvUnconfigured => ~call[c].invoked
            /\ call[c].pc = "done" =>
                  /\ EnvUnconfigured <=> call[c].http.status = 503
                  /\ EnvUnconfigured =>
                        call[c].http.body.code = "not_configured"

\* POST /search has answered 503
C9_Witness ==
    \E c \in Callers :
        /\ call[c].kind = "http"
        /\ call[c].pc = "done"
        /\ call[c].http.status = 503

Faults == {"token_transport", "token_rejected", "token_malformed",
           "search_transport", "search_rejected", "search_malformed"}

\* C10: configured, every failure of the search makes POST /search answer
\* 200 with success=false, an error string, no parts and total_count 0.
C10_FailureAnswers200 ==
    \A c \in Callers :
        (call[c].kind = "http" /\ call[c].fault \in Faults) =>
            /\ call[c].pc \in {"token_response", "done"}
            /\ call[c].pc = "done" =>
                  /\ call[c].http.status = 200
                  /\ ~call[c].http.body.success
                  /\ IsSome(call[c].http.body.error)
                  /\ Unwrap(call[c].http.body.error) /= ""
                  /\ call[c].http.body.parts = <<>>
                  /\ call[c].http.body.total_count = 0

\* POST /search has answered two requests that failed at different places
C10_Witness ==
    \E c, d \in Callers :
        /\ call[c].kind = "http" /\ call[c].pc = "done"
        /\ call[c].fault = "token_malformed"
        /\ call[d].kind = "http" /\ call[d].pc = "done"
        /\ call[d].fault = "search_rejected"
        /\ call[c].http.status = 200 /\ call[d].http.status = 200

\* the manufacturer part numbers of the records of an answer, in order
BodyMpns(body) ==
    [i \in 1..Len(body.parts) |-> body.parts[i].manufacturer_part_number]

\* C11: for every successful search, POST /search answers success=true with
\* no error, parts equal to the list search_keyword returned, in its order,
\* and total_count equal to the number of records in parts; a provider
\* response with one exact-manufacturer record only gives total_count = 1
\* and that record's manufacturer part number in the first place of parts.
C11_SuccessResponse ==
    \A c \in Callers :
        (call[c].kind = "http" /\ call[c].pc = "done" /\ call[c].result.ok) =>
            LET body == call[c].http.body
            IN  /\ call[c].http.status = 200
                /\ body.success
                /\ body.error = None
                /\ body.parts = call[c].result.parts
                /\ body.total_count = Len(body.parts)
                /\ IsSome(call[c].searched)
                /\ call[c].searched = Some(Response(None, None, None)) =>
                       body.parts = <<>>
                /\ call[c].searched = Some(SingleMfrExample) =>
                       /\ body.total_count = 1
                       /\ body.parts[1].manufacturer_part_number = Some(1)
                /\ call[c].searched = Some(MergeExample) =>
                       BodyMpns(body) =
                           <<Some(200), Some(1), Some(2), Some(3), Some(4)>>

\* POST /search has answered a search whose provider response held one
\* exact-manufacturer record only
C11_Witness ==
    \E c \in Callers :
        /\ call[c].kind = "http" /\ call[c].pc = "done"
        /\ call[c].searched = Some(SingleMfrExample)
        /\ call[c].http.body.success
        /\ call[c].http.body.total_count = 1

\* the effective term of a request: mpn when it is present, query otherwise
EffectiveTerm(req) == IF req.mpn = None THEN req.query ELSE Unwrap(req.mpn)

\* C12: the term POST /search passes to the provider search is mpn when the
\* request has one and query otherwise, and the query field of the answer
\* echoes that term on the success path and on the failure path.
C12_EffectiveTerm ==
    \A c \in Callers :
        call[c].kind = "http" =>
            /\ call[c].invoked => call[c].query = EffectiveTerm(call[c].req)
            /\ call[c].searchReqs > 0 =>
                   call[c].searchSent.keywords = EffectiveTerm(call[c].req)
            /\ (call[c].pc = "done" /\ call[c].http.status = 200) =>
                   call[c].http.body.query = EffectiveTerm(call[c].req)

\* POST /search has answered a successful search and a failed one, one with
\* an mpn and one without
C12_Witness ==
    \E c, d \in Callers :
        /\ call[c].kind = "http" /\ call[c].pc = "done"
        /\ call[c].req.mpn = Some("m") /\ call[c].req.query = "q"
        /\ call[c].result.ok
        /\ call[c].searchSent.keywords = "m"
        /\ call[c].http.body.query = "m"
        /\ call[d].kind = "http" /\ call[d].pc = "done"
        /\ call[d].req.mpn = None
        /\ call[d].fault = "search_rejected"
        /\ call[d].http.body.query = "q"

\* ------------------------------------------- claims on the keyword matches
\* the records the exact buckets contribute
ExactCount == Len(ExactKeys) + Len(MfrKeys)

\* ten keyword matches with distinct part numbers and no exact match
TenKeywordsExample == Response(None, None, Some(Bucket("kw", Run(1, 10))))

\* C15, as stated: keyword records are added only while the running total is
\* below 5, so a list that holds a keyword record never holds more than 5
\* records; no exact match and 10 distinct keyword records give at most 5.
C15_KeywordBelowFive ==
    Len(parts) > ExactCount => Len(parts) <= MIN_RESULTS

\* C15, amended: the keyword matches are consulted only when the exact
\* buckets gave fewer than 5 records, which is tested once before the loop;
\* at the moment a keyword record is appended the list holds fewer than 10
\* records, so the keyword records raise the total to 10 at most; no exact
\* match and 10 distinct keyword records give 10 records.
C15_KeywordFill ==
    /\ [][(agg_pc = "keyword_loop" /\ Len(parts') > Len(parts)) =>
             /\ ExactCount < MIN_RESULTS
             /\ Len(parts) < RECORD_COUNT]_vars
    /\ [](Len(parts) > ExactCount =>
             /\ ExactCount < MIN_RESULTS
             /\ Len(parts) <= RECORD_COUNT)
    /\ []((agg_pc = "done" /\ search_response = TenKeywordsExample) =>
             Len(parts) = RECORD_COUNT)

\* ten distinct keyword records and nothing else have been aggregated: the
\* keyword records took the list past 5
C15_Witness ==
    /\ agg_pc = "done"
    /\ search_response = TenKeywordsExample
    /\ Len(parts) > MIN_RESULTS

\* the keyword records that are looked at: the first 10 - n, n the number of
\* records of the exact buckets
KwExamined == Min(RECORD_COUNT - ExactCount, Len(KwKeys))

\* C16: the keyword matches are truncated before duplicates are dropped: with
\* n records from the exact buckets only the first 10 - n keyword records are
\* ever examined, and a later one never appears in the returned list, even
\* when earlier keyword records were dropped as duplicates.
C16_TruncatedBeforeDedup ==
    /\ agg_pc = "keyword_loop" =>
           /\ Len(iter) <= KwExamined
           /\ Keys(iter) = SubSeq(KwKeys, KwExamined - Len(iter) + 1, KwExamined)
    /\ \A i \in 1..Len(KwKeys) :
           i > RECORD_COUNT - ExactCount =>
               \A j \in 1..Len(parts) : PartKeys[j] /= KwKeys[i]

\* the returned list holds fewer than 10 records: a keyword record was
\* dropped as a duplicate, and a later keyword record whose part number is
\* not in the list was never examined
C16_Witness ==
    /\ agg_pc = "done"
    /\ Len(parts) < RECORD_COUNT
    /\ Len(parts) > ExactCount
    /\ \E i \in 1..KwExamined :
           \A j \in 1..Len(parts) : PartKeys[j] /= KwKeys[i]
    /\ \E i \in 1..Len(KwKeys) :
           /\ i > RECORD_COUNT - ExactCount
           /\ \A j \in 1..Len(parts) : PartMpns[j] /= KwKeys[i][2]

\* ------------------------------------------ claims on ordering and the slot
TokenFaults == {"token_transport", "token_rejected", "token_malformed"}
TokenError(fault) ==
    CASE fault = "token_transport" -> ErrTokenSend
      [] fault = "token_rejected"  -> ErrAuthFailed
      [] fault = "token_malformed" -> ErrTokenParse

\* C17: a call of search_keyword sends its search request only after
\* get_access_token has returned a token in that call, it sends at most one
\* search request, and when the token step fails it fails with that error
\* without sending a search request.
C17_TokenBeforeSearch ==
    \A c \in Callers :
        /\ call[c].searchReqs <= 1
        /\ call[c].pc \in {"idle", "search_keyword", "read_lock", "check_cache",
                           "token_await", "token_response", "write_lock",
                           "write_cache"} => call[c].searchReqs = 0
        /\ call[c].searchReqs = 1 =>
               /\ call[c].hit \/ call[c].cacheWrites = 1
               /\ call[c].fault \notin TokenFaults
        /\ call[c].pc = "search_await" =>
               /\ call[c].searchReqs = 1
               /\ call[c].access_token \in 1..issued
        /\ call[c].fault \in TokenFaults =>
               /\ call[c].searchReqs = 0
               /\ call[c].tokenReqs = 1
               /\ call[c].pc = "done" =>
                      call[c].result = Err(TokenError(call[c].fault))

\* one call has failed in the token step and sent no search request, another
\* has searched with the token it refreshed
C17_Witness ==
    \E c, d \in Callers :
        /\ call[c].pc = "done"
        /\ call[c].fault = "token_rejected"
        /\ call[c].searchReqs = 0
        /\ call[c].result = Err(ErrAuthFailed)
        /\ call[d].pc = "done"
        /\ call[d].result.ok
        /\ call[d].cacheWrites = 1
        /\ call[d].searchReqs = 1

\* no caller is between the arrival of a token response and its write
NoPendingWrite ==
    \A c \in Callers :
        call[c].pc \notin {"token_await", "token_response", "write_lock",
                           "write_cache"}

\* C18, as stated: when several callers refresh at once, every write replaces
\* the entry with a newer one: expires_at in the slot never decreases from
\* one write to the next, and the slot ends up holding the token the provider
\* issued last, whatever the order in which the writes land.
C18_NewerSupersedes ==
    /\ [][\A c \in Callers :
            (Writes(c) /\ IsSome(TOKEN_CACHE)) =>
                Unwrap(TOKEN_CACHE').expires_at >= Unwrap(TOKEN_CACHE).expires_at]_vars
    /\ []((NoPendingWrite /\ IsSome(TOKEN_CACHE)) =>
             Unwrap(TOKEN_CACHE).access_token = issued)

\* C19: the slot is absent from process start until the first successful
\* refresh and is never reset to absent afterwards; every entry is a complete
\* pair whose access_token and expires_at come from one provider response.
C19_CacheLifecycle ==
    /\ [](issued = 0 => TOKEN_CACHE = None)
    /\ [](TOKEN_CACHE = None => \A c \in Callers : call[c].cacheWrites = 0)
    /\ [][IsSome(TOKEN_CACHE) => IsSome(TOKEN_CACHE')]_vars
    /\ [][TOKEN_CACHE' /= TOKEN_CACHE =>
             \E c \in Callers :
                 /\ Writes(c)
                 /\ call[c].response.kind = "ok"
                 /\ TOKEN_CACHE' =
                        Some([access_token |-> call[c].response.access_token,
                              expires_at   |-> call[c].respAt +
                                               call[c].response.expires_in])]_vars

\* the entry of the first refresh has been replaced by that of a second one
C19_Witness ==
    /\ IsSome(TOKEN_CACHE)
    /\ Unwrap(TOKEN_CACHE).access_token = 2
    /\ \A c \in Callers : call[c].pc = "idle"

\* ------------------------------------------------ claims on convert_product
\* the status text the provider gave, if any
RawStatus ==
    IF dk_product.product_status = None THEN None
    ELSE Unwrap(dk_product.product_status).status

\* the statuses of StatusTexts that hold one of the four keywords, the case
\* of the letters set aside
ObsoleteTexts == {StDiscontinued, StrObsolete, StObsoleteUpper, StNotForNew,
                  StLastTimeBuy, StDiscAtDk}

\* C13: is_obsolete is true iff the raw status is present and its lower-cased
\* text contains 'obsolete', 'discontinued', 'not for new designs' or 'last
\* time buy'; 'Discontinued' gives is_obsolete with lifecycle_status
\* 'Discontinued', 'Active' gives not is_obsolete with lifecycle_status
\* 'Active', an absent status gives not is_obsolete with no lifecycle_status.
C13_Obsolescence ==
    norm_pc = "done" =>
        /\ part_info.is_obsolete <=>
               (RawStatus /= None /\ Unwrap(RawStatus) \in ObsoleteTexts)
        /\ RawStatus = Some(StDiscontinued) =>
               /\ part_info.is_obsolete
               /\ part_info.lifecycle_status = Some(StDiscontinued)
        /\ RawStatus = Some(StActive) =>
               /\ ~part_info.is_obsolete
               /\ part_info.lifecycle_status = Some(StActive)
        /\ RawStatus = None =>
               /\ ~part_info.is_obsolete
               /\ part_info.lifecycle_status = None

\* a product with status 'Discontinued' has been converted
C13_Witness ==
    /\ norm_pc = "done"
    /\ RawStatus = Some(StDiscontinued)
    /\ part_info.is_obsolete
    /\ part_info.lifecycle_status = Some(StDiscontinued)

\* the parameters the provider gave, none when the list is absent
RawParameters == OptSeq(dk_product.parameters)
\* the places of the parameters that have a name
Named == {i \in 1..Len(RawParameters) :
             RawParameters[i].parameter_text /= None}
\* the place in the output of the named parameter at place i
Rank(i) == Cardinality({j \in Named : j <= i})

\* C20: the output parameter list holds exactly the provider parameters whose
\* name is present, in provider order; a kept parameter with a missing value
\* gets the empty string as value, a parameter with a missing name is dropped
\* whatever its value, and an absent parameter list gives an empty list.
C20_Parameters ==
    norm_pc = "done" =>
        /\ Len(part_info.parameters) = Cardinality(Named)
        /\ \A i \in Named :
               /\ part_info.parameters[Rank(i)].name =
                      Unwrap(RawParameters[i].parameter_text)
               /\ part_info.parameters[Rank(i)].value =
                      IF RawParameters[i].value_text = None THEN <<>>
                      ELSE Unwrap(RawParameters[i].value_text)
        /\ dk_product.parameters = None => part_info.parameters = <<>>

\* a product has been converted whose first parameter has a value and no
\* name and whose second has a name and no value
C20_Witness ==
    /\ norm_pc = "done"
    /\ Len(RawParameters) = 2
    /\ RawParameters[1].parameter_text = None
    /\ RawParameters[1].value_text /= None
    /\ RawParameters[2].parameter_text /= None
    /\ RawParameters[2].value_text = None
    /\ part_info.parameters = <<[name |-> ParamNameA, value |-> <<>>]>>

\* ------------------------------------------------ claims on the credentials
\* both credentials have been read and neither is the empty string
BothResolvedNonEmpty ==
    /\ DIGIKEY_CLIENT_ID /= None /\ Unwrap(DIGIKEY_CLIENT_ID) /= ""
    /\ DIGIKEY_CLIENT_SECRET /= None /\ Unwrap(DIGIKEY_CLIENT_SECRET) /= ""
\* what std::env::var(n).unwrap_or_else(|_| String::new()) gives now
EnvNow(n) == IF env[n] = None THEN "" ELSE Unwrap(env[n])

\* a step leaves a credential that has been read as it is, and a first read
\* takes the value the environment has at that moment
ReadOnceStep ==
    /\ DIGIKEY_CLIENT_ID /= None =>
           DIGIKEY_CLIENT_ID' = DIGIKEY_CLIENT_ID
    /\ DIGIKEY_CLIENT_SECRET /= None =>
           DIGIKEY_CLIENT_SECRET' = DIGIKEY_CLIENT_SECRET
    /\ (DIGIKEY_CLIENT_ID = None /\ DIGIKEY_CLIENT_ID' /= None) =>
           /\ DIGIKEY_CLIENT_ID' = Some(EnvNow(EnvId))
           /\ envReads'[EnvId] = 1
    /\ (DIGIKEY_CLIENT_SECRET = None /\ DIGIKEY_CLIENT_SECRET' /= None) =>
           /\ DIGIKEY_CLIENT_SECRET' = Some(EnvNow(EnvSecret))
           /\ envReads'[EnvSecret] = 1

\* C14: is_configured is true iff the client id and the client secret
\* resolved from the environment are both non-empty; each of the two is read
\* from the environment at most once: after its first read no change of the
\* environment changes the value is_configured, the token request and the
\* search request use.
C14_ReadOnce ==
    /\ [](status_body /= None =>
             (Unwrap(status_body).configured <=> BothResolvedNonEmpty))
    /\ [](\A c \in CredCallers :
             /\ (call[c].kind = "http" /\ call[c].pc = "done") =>
                    (call[c].http.status = 503 <=> ~BothResolvedNonEmpty)
             /\ (call[c].invoked
                 /\ call[c].pc \notin {"search_keyword", "done"}) =>
                    BothResolvedNonEmpty
             /\ call[c].tokenReqs > 0 =>
                    call[c].tokenSent =
                        [client_id     |-> Unwrap(DIGIKEY_CLIENT_ID),
                         client_secret |-> Unwrap(DIGIKEY_CLIENT_SECRET)]
             /\ call[c].searchReqs > 0 =>
                    call[c].searchSent.client_id = Unwrap(DIGIKEY_CLIENT_ID))
    /\ [](\A n \in {EnvId, EnvSecret} : envReads[n] <= 1)
    /\ [][ReadOnceStep]_vars

\* the client id was set to a new value before its first read and removed
\* from the environment afterwards, the secret was changed after its first
\* read: GET /status answers configured and a search has been sent with the
\* values of the first reads
C14_Witness ==
    /\ DIGIKEY_CLIENT_ID = Some("changed")
    /\ DIGIKEY_CLIENT_SECRET = Some("secret")
    /\ env[EnvId] = None
    /\ env[EnvSecret] = Some("changed")
    /\ status_body /= None /\ Unwrap(status_body).configured
    /\ \E c \in CredCallers :
           /\ call[c].pc = "search_await"
           /\ call[c].tokenSent = [client_id |-> "changed",
                                   client_secret |-> "secret"]
           /\ call[c].searchSent.client_id = "changed"

\* ------------------------------------------------ claims on failed refreshes
\* caller c moves in this step
Moves(c) == call'[c] /= call[c]

\* C21: a failed refresh leaves the slot untouched. No step of a call whose
\* token request meets a transport error, a non-success status or an
\* undecodable body changes the slot (absent stays absent, an entry stays in
\* place), such a call never takes the write lock, so no reader sees a state
\* it wrote, and the next call that finds the slot unusable sends a token
\* request again.
C21_FailedRefreshFrame ==
    /\ [][\A c \in Callers :
            (Moves(c) /\ (call[c].fault \in TokenFaults
                          \/ call'[c].fault \in TokenFaults)) =>
                TOKEN_CACHE' = TOKEN_CACHE]_vars
    /\ [][TOKEN_CACHE' /= TOKEN_CACHE =>
             \E c \in Callers :
                 /\ Writes(c)
                 /\ call[c].fault = "" /\ call'[c].fault = ""
                 /\ call[c].response.kind = "ok"]_vars
    /\ [](\A c \in Callers :
             call[c].fault \in TokenFaults =>
                 /\ call[c].cacheWrites = 0
                 /\ c \notin writer
                 /\ call[c].pc \in {"token_response", "done"})
    /\ [][\A c \in Callers :
            (Checks(c) /\ ~Fresh) =>
                call'[c].pc = "token_await" /\ call'[c].tokenReqs = 1]_vars

\* a refresh has failed while an entry was in the slot: the entry is still
\* there, and the other caller, finding it stale, has sent a token request
C21_Witness ==
    \E c, d \in Callers :
        /\ call[c].pc = "done"
        /\ call[c].fault = "token_rejected"
        /\ call[c].result = Err(ErrAuthFailed)
        /\ IsSome(TOKEN_CACHE)
        /\ ~Fresh
        /\ call[d].pc = "token_await"
        /\ call[d].tokenReqs = 1
====
